---- MODULE Spec2Model ----
(***************************************************************************)
(* A model of src/src/deid.py (AoU de-identification policy compiler):     *)
(* the Shift and DropFields policies with their per-instance cache and     *)
(* policies dictionaries, the Group category rules, and                     *)
(* Orchestrator.setup, which composes the fragments into one query.        *)
(*                                                                         *)
(* SQL text is modelled as a sequence of tokens (strings).  A template     *)
(* placeholder such as ":fields" is one token, str.replace is token        *)
(* substitution, ",".join puts a "," token between the items.  Every       *)
(* parenthesis and every list comma of the source text is a token of its   *)
(* own, so that the select lists of the composed text can be read back     *)
(* from the text itself.                                                   *)
(***************************************************************************)
EXTENDS Integers, Sequences, FiniteSets, TLC

VARIABLES
    schemas,     \* the warehouse: table -> ordered column descriptors
    catalog,     \* the concept catalog: category query -> result rows
    alwaysDrop,  \* the 'remove' list as the caller first wrote it
    mode,        \* what the caller drives: "shift" | "dropfields" |
                 \* "orchestrator" | "group" | "data" (the queries run
                 \* against rows)
    removeObj,   \* the caller's 'remove' list object (mutated in place)
    shift,       \* a Shift instance: [cache, policies]
    drop,        \* a DropFields instance: [cache, policies, remove, own]
    last,        \* the outcome of the last call made by the caller
    world        \* the rows the queries are run against, and what the
                 \* query run last selected

vars ==
    <<schemas, catalog, alwaysDrop, mode, removeObj, shift, drop, last, world>>

(***************************************************************************)
(* Bounds of the model.                                                    *)
(***************************************************************************)
\* the caller's remove list grows by the date columns of every table that is
\* compiled with it; the model stops passing it on once it is this long
MaxRemoveLen == 3

(***************************************************************************)
(* Python str / list helpers on token sequences.                           *)
(***************************************************************************)
\* F(x) with x evaluated once, before F is: Python evaluates the right-hand
\* side of an assignment once and then uses the value
Bind(x, F(_)) == CHOOSE r \in {F(v) : v \in {x}} : TRUE

RECURSIVE FlattenV(_)
FlattenV(ss) ==
    IF Len(ss) = 0 THEN << >>
    ELSE IF Len(ss) = 1 THEN ss[1]
    ELSE Bind(SubSeq(ss, 1, Len(ss) \div 2), FlattenV) \o
         Bind(SubSeq(ss, (Len(ss) \div 2) + 1, Len(ss)), FlattenV)

\* the concatenation of a sequence of token sequences
Flatten(ss) == Bind(ss, FlattenV)

\* sep.join(items): items is a sequence of token sequences
StrJoin(sep, items) ==
    Bind(items, LAMBDA its :
        Flatten([i \in 1..Len(its) |->
                    IF i = 1 THEN its[i] ELSE <<sep>> \o its[i]]))

RECURSIVE ReplaceV(_, _, _)
ReplaceV(text, ph, by) ==
    Bind({i \in 1..Len(text) : text[i] = ph}, LAMBDA at :
        IF at = {} THEN text
        ELSE Bind(CHOOSE j \in at : \A k \in at : j <= k, LAMBDA i :
                 SubSeq(text, 1, i - 1) \o by \o
                 Bind(SubSeq(text, i + 1, Len(text)), LAMBDA rest :
                     ReplaceV(rest, ph, by))))

\* text.replace(ph, by): every occurrence of the token ph becomes the tokens by
Replace(text, ph, by) ==
    Bind(text, LAMBDA t : Bind(by, LAMBDA b : ReplaceV(t, ph, b)))

\* [x for x in xs if keep(x)]
Filter(xs, Keep(_)) == SelectSeq(xs, Keep)

\* the elements of a list, as a set
Elems(xs) == {xs[i] : i \in 1..Len(xs)}

\* a dictionary with no key
EmptyDict == [k \in {} |-> FALSE]

\* a list of names as a list of one-token items
Items(names) == [i \in 1..Len(names) |-> <<names[i]>>]

(***************************************************************************)
(* Policy: class constants.                                                *)
(***************************************************************************)
DATASET == "raw"

META_TABLES == <<"observation">>

SEXUAL_ORIENTATION_STRAIGHT == "SexualOrientation_Straight"

SEXUAL_ORIENTATION_NOT_STRAIGHT == "SexualOrientation_None"

\* the keys of Policy.TERMS.OBSERVATION_FILTERS, in the order of the literal
FilterKeys ==
    <<"race", "gender", "orientation", "employment", "sex_at_birth",
      "language", "education">>

OBSERVATION_FILTERS ==
    [race |-> "Race_WhatRace", gender |-> "Gender",
     orientation |-> "Orientation", employment |-> "_EmploymentStatus",
     sex_at_birth |-> "BiologicalSexAtBirth_SexAtBirth",
     language |-> "Language_SpokenWrittenLanguage",
     education |-> "EducationLevel_HighestGrade"]

\* Policy.__init__ defaults
VocabularyId == "PPI"

ConceptClassId == <<"Question", "PPI Modifier">>

DateTypes == {"DATE", "TIMESTAMP", "DATETIME"}

\* dataset + "." + table
KeyName(dataset, table) == dataset \o "." \o table

\* set(xs) listed again: CPython 2 hashes strings without randomisation, so
\* the iteration order of a set is a fixed function of its contents; it is
\* in general not the order of insertion.  HashRank is that fixed order.
HashRank(n) ==
    CASE n = "value_as_string" -> 1
      [] n = "person_id" -> 2
      [] n = "observation_date" -> 3
      [] n = "note_text" -> 4
      [] n = "birth_datetime" -> 5
      [] n = "observation_source_concept_id" -> 6
      [] n = "race_concept_id" -> 7
      [] n = "observation_id" -> 8
      [] n = "gender_concept_id" -> 9
      [] n = "value_source_value" -> 10
      [] OTHER -> 11

RECURSIVE ListOfSet(_)
\* list(set(...)): the elements of S in iteration order
ListOfSet(S) ==
    IF S = {} THEN << >>
    ELSE LET x == CHOOSE y \in S : \A z \in S : HashRank(y) <= HashRank(z)
         IN  <<x>> \o ListOfSet(S \ {x})

(***************************************************************************)
(* The schema provider: client.get_table(ref).schema.                      *)
(***************************************************************************)
Tables == {"observation", "person", "note", "ghost"}

\* the tables of the dataset; get_table raises NotFound for any other
Existing == DOMAIN schemas

IsDate(field) == field.field_type \in DateTypes

\* [field for field in info if field.field_type in ('DATE','TIMESTAMP','DATETIME')]
DateFields(schema) == Filter(schema, IsDate)

\* [field.name for field in fields]
FieldNames(fields) == [i \in 1..Len(fields) |-> fields[i].name]

InMeta(table) == table \in Elems(META_TABLES)

(***************************************************************************)
(* Shift                                                                   *)
(***************************************************************************)
\* d[k] = v on a dictionary
DictSet(d, k, v) == [x \in DOMAIN d \cup {k} |-> IF x = k THEN v ELSE d[x]]

\* one item of Shift.__get_shifted_fields
ShiftedField(name) ==
    <<"DATE_DIFF", "(", "CAST", "(", "x.value_as_string", "AS", "DATE", ")",
      ",", "CAST", "(", "__targetTable.", name, "AS", "DATE", ")", ",",
      "DAY", ")", "as", name>>

\* Shift.__get_shifted_fields(fields): ",".join(r)
GetShiftedFields(fields) ==
    StrJoin(",", [i \in 1..Len(fields) |-> ShiftedField(fields[i].name)])

ShiftJoinTemplate ==
    <<"SELECT", "x.person_id", ",", ":fields",
      "FROM", ":i_dataset", ".", "observation", "x", "INNER JOIN",
      ":i_dataset", ".", ":table", "__targetTable",
      "ON", "__targetTable.", "person_id", "=", "x.person_id",
      "WHERE", "x.observation_source_value", "=", "'ExtraConsent_TodaysDate'",
      ":additional_condition">>

\* the condition added to the join query when the table is observation
AdditionalCondition(table) ==
    IF table = "observation"
    THEN <<"AND", "x.observation_id", "=", "__targetTable.", "observation_id">>
    ELSE << >>

\* the join query of Shift.can_do
ShiftJoinSql(dataset, table, sql_fields) ==
    Replace(Replace(Replace(Replace(ShiftJoinTemplate,
        ":fields", sql_fields),
        ":i_dataset", <<dataset>>),
        ":table", <<table>>),
        ":additional_condition", AdditionalCondition(table))

\* the alternatives of the pattern that marks an encoded date
ShiftDatePattern == <<"DATE", "|", "Date", "|", "date">>

ShiftUnionTemplate ==
    <<"SELECT", "CAST", "(", "DATE_DIFF", "(",
          "CAST", "(", "x.value_as_string", "AS", "DATE", ")", ",",
          "CAST", "(", "y.value_as_string", "AS", "DATE", ")", ",",
          "DAY", ")", "as", "STRING", ")", "as", "value_as_string", ",",
      "x.person_id", ",", ":shifted_fields", ":fields",
      "FROM", ":i_dataset", ".", "observation", "x", "INNER JOIN", "(",
          "SELECT", "MAX", "(", "value_as_string", ")", "as",
          "value_as_string", ",", "person_id",
          "FROM", ":i_dataset", ".", "observation",
          "WHERE", "observation_source_value", "=",
          "'ExtraConsent_TodaysDate'",
          "GROUP BY", "person_id",
      ")", "y", "ON", "x.person_id", "=", "y.person_id",
      "WHERE", "observation_source_value", "in", "(",
          "SELECT", "concept_code", "from", ":i_dataset", ".", "concept",
          "WHERE", "REGEXP_CONTAINS", "(", "concept_code", ",",
          "'(">> \o ShiftDatePattern \o <<")'", ")", "IS", "TRUE",
      ")">>

\* the union query of Shift.can_do, as stored in policies[name]["union"]
ShiftUnionSql(dataset, sql_fields) ==
    Replace(Replace(Replace(ShiftUnionTemplate,
        ":i_dataset", <<dataset>>),
        ":shifted_fields", sql_fields),
        "__targetTable.", << >>)

\* union_fields = ['value_as_string'] + joined_fields + ['person_id']
ShiftUnionFields(joined_fields) ==
    <<"value_as_string">> \o joined_fields \o <<"person_id">>

\* self.policies[name] = {"join": ...} and, for a meta-table, [..]["union"]
ShiftEntry(dataset, table, q, sql_fields, joined_fields) ==
    Bind([sql |-> ShiftJoinSql(dataset, table, sql_fields),
          fields |-> joined_fields],
         LAMBDA join :
            IF q
            THEN [join |-> join,
                  union |-> [sql |-> ShiftUnionSql(dataset, sql_fields),
                             fields |-> ShiftUnionFields(joined_fields)]]
            ELSE [join |-> join])

\* the body of the try block of Shift.can_do, given the schema: the value
\* of cache[name], whether policies[name] is stored, and what is stored
ShiftCompute(dataset, table, info) ==
    Bind(DateFields(info), LAMBDA fields :
        [cache |-> (Len(fields) > 0 \/ InMeta(table)),
         stored |-> (Len(fields) > 0 \/ InMeta(table)),
         entry |-> ShiftEntry(dataset, table, InMeta(table),
                              GetShiftedFields(fields), FieldNames(fields))])

\* what a can_do call hands back: the instance afterwards and what the
\* caller sees (the value returned or the exception raised, what was
\* printed, the number of provider queries, whether the key was cached)
Outcome(self, value, err, printed, queries, cached) ==
    [self |-> self, value |-> value, err |-> err, printed |-> printed,
     queries |-> queries, cached |-> cached]

\* Shift.can_do when the key is new and the schema is read
ShiftStore(self, name, c) ==
    Outcome([cache |-> DictSet(self.cache, name, c.cache),
             policies |-> IF c.stored
                          THEN DictSet(self.policies, name, c.entry)
                          ELSE self.policies],
            c.cache, "none", "none", 1, FALSE)

\* Shift.can_do as it would be if it returned 'p or q' (the locals of lines
\* 101-102, False until the schema is read) and not self.cache[name]
ShiftCanDoCallPQ(self, dataset, table) ==
    IF KeyName(dataset, table) \in DOMAIN self.cache
    THEN Outcome(self, FALSE, "none", "none", 0, TRUE)
    ELSE IF table \notin Existing
    THEN Outcome(self, FALSE, "KeyError", "NotFound", 1, FALSE)
    ELSE Bind(ShiftCompute(dataset, table, schemas[table]), LAMBDA c :
             ShiftStore(self, KeyName(dataset, table), c))

\* Shift.can_do(dataset, table) on the instance self
ShiftCanDoCall(self, dataset, table) ==
    IF KeyName(dataset, table) \in DOMAIN self.cache
    THEN Outcome(self, self.cache[KeyName(dataset, table)], "none", "none",
                 0, TRUE)
    ELSE IF table \notin Existing
    THEN \* get_table raises; the except clause prints it; then
         \* 'return self.cache[name]' raises KeyError
         Outcome(self, FALSE, "KeyError", "NotFound", 1, FALSE)
    ELSE Bind(ShiftCompute(dataset, table, schemas[table]), LAMBDA c :
             ShiftStore(self, KeyName(dataset, table), c))

\* Shift.get(dataset, table): found = FALSE stands for the None it returns
\* for a key that policies does not hold
ShiftGet(self, dataset, table) ==
    IF KeyName(dataset, table) \in DOMAIN self.policies
    THEN [found |-> TRUE, entry |-> self.policies[KeyName(dataset, table)]]
    ELSE [found |-> FALSE, entry |-> EmptyDict]

(***************************************************************************)
(* Group: the category rules.  client.query(sql).to_dataframe() is the     *)
(* catalog's answer to the rule's query: catalog[key], a list of rows      *)
(* [concept_id, concept_code, concept_name].                               *)
(***************************************************************************)
\* the positions of the "," tokens of a text
CommaAt(text) == {i \in 1..Len(text) : text[i] = ","}

\* text.split(","), for a text whose pieces are single names: the k-th piece
\* is what lies between the (k-1)-th and the k-th comma, '' when nothing does
SplitNames(text) ==
    LET cs == CommaAt(text)
        Start(k) == IF k = 1 THEN 1
                    ELSE 1 + CHOOSE i \in cs :
                                 Cardinality({j \in cs : j < i}) = k - 2
        End(k) == IF k = Cardinality(cs) + 1 THEN Len(text)
                  ELSE (CHOOSE i \in cs :
                            Cardinality({j \in cs : j < i}) = k - 1) - 1
    IN  [k \in 1..(Cardinality(cs) + 1) |->
            IF Start(k) > End(k) THEN "" ELSE text[Start(k)]]

\* r[r[col] == v][out].tolist()
RowsWhere(rows, col, v) == Filter(rows, LAMBDA row : row[col] = v)

RowsWhereNot(rows, col, v) == Filter(rows, LAMBDA row : row[col] # v)

\* [str(value) for value in rows['concept_id'].tolist()]
ConceptIds(rows) == [i \in 1..Len(rows) |-> rows[i].concept_id]

\* Group.get_fields(p): the entries of p whose name is one of self.fields
GetFields(fields, p) ==
    [name \in (DOMAIN p) \cap Elems(fields) |-> p[name]]

\* "IF(value_source_concept_id not in (:_ids),<sentinel>,<col>) as <col>"
\* with the sentinel quoted (':other_name') or bare (:other_id)
ObservationExpr(col, _ids, sentinel) ==
    <<"IF", "(", "value_source_concept_id", "not in", "(">> \o _ids \o
    <<")", ",">> \o sentinel \o <<",", col, ")", "as", col>>

Quoted(v) == <<"'", v, "'">>

\* the four expressions for observation rows (Group.race, Group.gender and
\* Group.__get_formatted_observations build the same four)
ObservationExprs(ids, other_name, other_id) ==
    LET _ids == StrJoin(",", Items(ids))
    IN  [value_as_string |->
            ObservationExpr("value_as_string", _ids, Quoted(other_name)),
         observation_source_concept_id |->
            ObservationExpr("observation_source_concept_id", _ids,
                            <<other_id>>),
         observation_source_value |->
            ObservationExpr("observation_source_value", _ids,
                            Quoted(other_name)),
         value_source_value |->
            ObservationExpr("value_source_value", _ids, Quoted(other_name))]

\* Group.__get_formatted_observations
GetFormattedObservations(fields, ids, other_name, other_id) ==
    GetFields(fields, ObservationExprs(ids, other_name, other_id))

\* what a rule hands back: the dictionary of get_fields, or the exception
Rule(err, r) == [err |-> err, r |-> r]

\* the expressions of Group.race for the person table
RacePersonExprs(_ids, other_name, other_id) ==
    [race_concept_id |->
        <<"IF", "(", "race_concept_id", "not in", "(">> \o _ids \o
        <<")", ",", other_id, ",", "race_concept_id", ")", "as",
          "race_concept_id">>,
     race_source_value |->
        <<"IF", "(", "race_concept_id", "not in", "(">> \o _ids \o
        <<")", ",">> \o Quoted(other_name) \o
        <<",", "race_source_value", ")", "as", "race_source_value">>]

\* Group.race: .tolist()[0] raises IndexError when no row is 'Other Race'
GroupRace(table, fields, rows) ==
    Bind(RowsWhere(rows, "concept_name", "Other Race"), LAMBDA other :
    Bind(ConceptIds(RowsWhereNot(rows, "concept_name", "Other Race")),
         LAMBDA ids :
        IF Len(other) = 0 THEN Rule("IndexError", EmptyDict)
        ELSE IF table = "person"
        THEN Rule("none", GetFields(fields,
                 RacePersonExprs(StrJoin(",", Items(ids)),
                                 other[1].concept_name, other[1].concept_id)))
        ELSE Rule("none", GetFields(fields,
                 ObservationExprs(ids, other[1].concept_name,
                                  other[1].concept_id)))))

\* the expressions of Group.gender for the person table
GenderPersonExprs(_ids, other_name, other_id) ==
    [gender_concept_id |->
        <<"IF", "(", "gender_concept_id", "in", "(">> \o _ids \o
        <<")", ",", other_id, ",", "gender_concept_id", ")", "as",
          "gender_concept_id">>,
     gender_source_value |->
        <<"IF", "(", "gender_concept_id", "in", "(">> \o _ids \o
        <<")", ",", other_name, ",", "gender_source_value", ")", "as",
          "gender_source_value">>]

\* Group.gender: .values[0] raises IndexError when no row is 'OTHER'
GroupGender(table, fields, rows) ==
    Bind(RowsWhere(rows, "concept_name", "OTHER"), LAMBDA other :
    Bind(ConceptIds(RowsWhereNot(rows, "concept_name", "OTHER")),
         LAMBDA ids :
        IF Len(other) = 0 THEN Rule("IndexError", EmptyDict)
        ELSE IF table = "person"
        THEN Rule("none", GetFields(fields,
                 GenderPersonExprs(StrJoin(",", Items(ids)),
                                   other[1].concept_name,
                                   other[1].concept_id)))
        ELSE Rule("none", GetFields(fields,
                 ObservationExprs(ids, other[1].concept_name,
                                  other[1].concept_id)))))

\* Group.orientation: .tolist()[0] raises IndexError when no row has the
\* code SexualOrientation_None
GroupOrientation(table, fields, rows) ==
    Bind(RowsWhere(rows, "concept_code", SEXUAL_ORIENTATION_NOT_STRAIGHT),
         LAMBDA other :
        IF Len(other) = 0 THEN Rule("IndexError", EmptyDict)
        ELSE Rule("none", GetFormattedObservations(fields,
                 ConceptIds(RowsWhere(rows, "concept_code",
                                      SEXUAL_ORIENTATION_STRAIGHT)),
                 other[1].concept_code, other[1].concept_id)))

\* Group.education, Group.sex_at_birth, Group.language, Group.employment:
\* a hard-coded sentinel ('0', 'Unknown') and every returned row kept
GroupUnknown(table, fields, rows) ==
    Rule("none",
         GetFormattedObservations(fields, ConceptIds(rows), "Unknown", "0"))

\* getattr(handler, key)()
GroupCall(key, table, fields, cat) ==
    CASE key = "race" -> GroupRace(table, fields, cat[key])
      [] key = "gender" -> GroupGender(table, fields, cat[key])
      [] key = "orientation" -> GroupOrientation(table, fields, cat[key])
      [] OTHER -> GroupUnknown(table, fields, cat[key])

(***************************************************************************)
(* DropFields                                                              *)
(***************************************************************************)
\* self.remove += [names of the date columns]  (in place, on the list object)
RemoveExtended(remove, schema) == remove \o FieldNames(DateFields(schema))

\* self.remove = list(set(self.remove))
RemoveDeduped(remove) == ListOfSet(Elems(remove))

\* [field.name for field in schema if field.name not in self.remove]
RetainedFields(schema, remove) ==
    Filter(FieldNames(schema), LAMBDA n : n \notin Elems(remove))

\* lfields as it would be if the removed columns were not filtered out
DropLFieldsAll(schema, remove) == FieldNames(schema)

\* lfields: the retained columns when p, every column otherwise
DropLFields(schema, remove) ==
    IF Len(remove) > 0 THEN RetainedFields(schema, remove)
    ELSE FieldNames(schema)

\* _fields: ",".join(_fields) when p, "*" otherwise
DropProjection(p, lfields) ==
    IF p THEN StrJoin(",", Items(lfields)) ELSE <<"*">>

DropBaseTemplate == <<"SELECT", ":fields", "FROM", ":i_dataset", ".", ":table">>

\* codes = "'" + "','".join(self.concept_class_id) + "'"
DropCodes(concept_class_id) ==
    StrJoin(",", [i \in 1..Len(concept_class_id) |->
                     <<"'" \o concept_class_id[i] \o "'">>])

\* sql_filter = "Date|" + "|".join(Policy.TERMS.OBSERVATION_FILTERS.values())
DropSqlFilter ==
    <<"Date", "|">> \o
    StrJoin("|", [i \in 1..Len(FilterKeys) |->
                     <<OBSERVATION_FILTERS[FilterKeys[i]]>>])

\* the first-pass row filter appended to the base query of a meta-table
DropMetaWhere(concept_class_id, vocabulary_id) ==
    Replace(Replace(Replace(
        <<"WHERE", "observation_source_concept_id", "in", "(",
              "SELECT", "concept_id", "FROM", ":i_dataset", ".", "concept",
              "WHERE", "vocabulary_id", "=", "'", ":vocabulary_id", "'",
              "AND", "concept_class_id", "in", "(", ":code", ")",
              "AND", "REGEXP_CONTAINS", "(", "concept_code", ",",
              "'(", ":filter", ")'", ")", "IS", "FALSE",
          ")">>,
        ":code", DropCodes(concept_class_id)),
        ":vocabulary_id", <<vocabulary_id>>),
        ":filter", DropSqlFilter)

\* sql, before the category branches are added
DropBase(q) ==
    IF q THEN DropBaseTemplate \o DropMetaWhere(ConceptClassId, VocabularyId)
    ELSE DropBaseTemplate

DropBranchTemplate ==
    <<"SELECT", ":fields", "FROM", ":i_dataset", ".", ":table",
      "WHERE", "observation_source_concept_id", "in", "(",
          "SELECT", "concept_id", "FROM", ":i_dataset", ".", "concept",
          "WHERE", "REGEXP_CONTAINS", "(", "concept_code", ",",
          "'(?i)", ":key", "'", ")",
      ")">>

\* ofields as it would be if the expressions were appended to the list and
\* not put at the position of the field they alias
DropOFieldsAppended(r, lfields) ==
    [i \in 1..Len(lfields) |-> <<lfields[i]>>] \o
    [i \in 1..Len(Filter(lfields, LAMBDA n : n \in DOMAIN r)) |->
        r[Filter(lfields, LAMBDA n : n \in DOMAIN r)[i]]]

\* ofields = [r[fname] if fname in r else fname for fname in lfields]
DropOFields(r, lfields) ==
    [i \in 1..Len(lfields) |->
        IF lfields[i] \in DOMAIN r THEN r[lfields[i]] ELSE <<lfields[i]>>]

\* " UNION ALL " + _sql_ for one category
DropBranch(dataset, table, key, ofields) ==
    <<"UNION ALL">> \o
    Replace(Replace(Replace(Replace(DropBranchTemplate,
        ":fields", StrJoin(",", ofields)),
        ":table", <<table>>),
        ":key", <<key>>),
        ":i_dataset", <<dataset>>)

\* the loop over Policy.TERMS.OBSERVATION_FILTERS: the results of the seven
\* category rules, in the order of the loop
DropGroupResults(table, gfields, cat) ==
    [i \in 1..Len(FilterKeys) |-> GroupCall(FilterKeys[i], table, gfields, cat)]

\* one of the rules raised (the loop stops there, inside the try block)
Raised(results) == \E i \in 1..Len(results) : results[i].err # "none"

\* the number of rules the loop ran, each one query to the catalog
GroupCalls(results) ==
    IF Raised(results)
    THEN CHOOSE i \in 1..Len(results) :
             /\ results[i].err # "none"
             /\ \A j \in 1..(i - 1) : results[j].err = "none"
    ELSE Len(results)

\* xsql[1:]: a branch for every rule whose dictionary is not empty
DropBranches(dataset, table, results, lfields) ==
    Flatten([i \in 1..Len(results) |->
                IF Cardinality(DOMAIN results[i].r) > 0
                THEN DropBranch(dataset, table, FilterKeys[i],
                                DropOFields(results[i].r, lfields))
                ELSE << >>])

\* " SELECT :fields from (" + " ".join(xsql) + ") GROUP BY :fields"
DropWrapped(base, branches) ==
    <<"SELECT", ":fields", "from", "(">> \o base \o branches \o
    <<")", "GROUP BY", ":fields">>

\* the replaces that end the try block
DropSql(text, _fields, dataset, table) ==
    Replace(Replace(Replace(text,
        ":fields", _fields),
        ":i_dataset", <<dataset>>),
        ":table", <<table>>)

\* self.policies[name] = {"sql": sql, "fields": lfields}
DropEntry(dataset, table, q, lfields, _fields, results) ==
    [sql |-> DropSql(IF q THEN DropWrapped(DropBase(q),
                                   DropBranches(dataset, table, results,
                                                lfields))
                     ELSE DropBase(q),
                     _fields, dataset, table),
     fields |-> lfields]

\* the outcome of the try block of DropFields.can_do
DropResult(dataset, table, p, q, lfields, _fields, results) ==
    [cache |-> (p \/ q),
     raised |-> Raised(results),
     queries |-> GroupCalls(results),
     entry |-> IF Raised(results) THEN EmptyDict
               ELSE DropEntry(dataset, table, q, lfields, _fields, results)]

\* the body of the try block of DropFields.can_do after the schema is read:
\* remove is self.remove after lines 235-236.  The rules run for a
\* meta-table only; Group.__init__ splits the string it is given as fields.
DropCompute(dataset, table, schema, remove, cat) ==
    Bind(DropLFields(schema, remove), LAMBDA lfields :
    Bind(DropProjection(Len(remove) > 0, lfields), LAMBDA _fields :
    Bind(IF InMeta(table)
         THEN DropGroupResults(table, SplitNames(_fields), cat)
         ELSE << >>,
         LAMBDA results :
            DropResult(dataset, table, Len(remove) > 0, InMeta(table),
                       lfields, _fields, results))))

\* self.remove as the instance reads it: the caller's list object until the
\* instance rebinds it to a list of its own
DropRemove(self, callerList) == IF self.own THEN self.remove ELSE callerList

\* what a DropFields.can_do call hands back: as Outcome, and the caller's
\* list object afterwards
DropOutcome(self, callerList, value, err, printed, queries, cached) ==
    [self |-> self, callerList |-> callerList, value |-> value, err |-> err,
     printed |-> printed, queries |-> queries, cached |-> cached]

\* DropFields.can_do when the key is new and the schema is read
DropStore(self, callerList, name, extended, remove, c) ==
    DropOutcome([cache |-> DictSet(self.cache, name, c.cache),
                 policies |-> IF c.raised THEN self.policies
                              ELSE DictSet(self.policies, name, c.entry),
                 remove |-> remove, own |-> TRUE],
                IF self.own THEN callerList ELSE extended,
                c.cache, "none",
                IF c.raised THEN "IndexError" ELSE "none",
                1 + c.queries, FALSE)

\* DropFields.can_do as it would be without the 'name not in self.cache'
\* guard: the schema is read and the plan computed at every call
DropCanDoCallAnew(self, callerList, dataset, table) ==
    IF table \notin Existing
    THEN DropOutcome(self, callerList, FALSE, "KeyError", "NotFound", 1,
                     FALSE)
    ELSE Bind(RemoveExtended(DropRemove(self, callerList), schemas[table]),
              LAMBDA extended :
         Bind(RemoveDeduped(extended), LAMBDA remove :
         Bind(DropCompute(dataset, table, schemas[table], remove, catalog),
              LAMBDA c :
                 DropStore(self, callerList, KeyName(dataset, table),
                           extended, remove, c))))

\* DropFields.can_do(dataset, table) on the instance self, whose constructor
\* was given the list object callerList
DropCanDoCall(self, callerList, dataset, table) ==
    IF KeyName(dataset, table) \in DOMAIN self.cache
    THEN DropOutcome(self, callerList, self.cache[KeyName(dataset, table)],
                     "none", "none", 0, TRUE)
    ELSE IF table \notin Existing
    THEN \* get_table raises; the except clause prints it; then
         \* 'return self.cache [name]' raises KeyError
         DropOutcome(self, callerList, FALSE, "KeyError", "NotFound", 1,
                     FALSE)
    ELSE Bind(RemoveExtended(DropRemove(self, callerList), schemas[table]),
              LAMBDA extended :
         Bind(RemoveDeduped(extended), LAMBDA remove :
         Bind(DropCompute(dataset, table, schemas[table], remove, catalog),
              LAMBDA c :
                 DropStore(self, callerList, KeyName(dataset, table),
                           extended, remove, c))))

\* DropFields.get(dataset, table): found = FALSE stands for the False it
\* returns for a key that policies does not hold
DropGet(self, dataset, table) ==
    IF KeyName(dataset, table) \in DOMAIN self.policies
    THEN [found |-> TRUE, entry |-> self.policies[KeyName(dataset, table)]]
    ELSE [found |-> FALSE, entry |-> EmptyDict]

(***************************************************************************)
(* Orchestrator                                                            *)
(***************************************************************************)
\* Policy.__init__: self.policies = {}, self.cache = {}
NewShift == [cache |-> EmptyDict, policies |-> EmptyDict]

\* DropFields.__init__: self.remove = args['remove'] (the caller's object)
NewDropFields ==
    [cache |-> EmptyDict, policies |-> EmptyDict, remove |-> << >>,
     own |-> FALSE]

\* 'a.' + name
Prefixed(name) == "a." \o name

\* field.replace('a.', ''): a column name holds no '.', so nothing is removed
Unprefixed(name) == name

\* part_a_prefix as it would be without line 610, which appends the join
\* fields to it
PartAPrefixNoJoin(fields, join_fields) ==
    Bind(Filter(fields, LAMBDA n : n \notin Elems(join_fields)),
         LAMBDA kept : [i \in 1..Len(kept) |-> Prefixed(kept[i])])

\* part_a_prefix of Orchestrator.setup
PartAPrefix(fields, join_fields) ==
    Bind(Filter(fields, LAMBDA n : n \notin Elems(join_fields)),
         LAMBDA kept :
            [i \in 1..Len(kept) |-> Prefixed(kept[i])] \o join_fields)

\* join_fields = ",".join([''] + r['shift']['join']['fields']), and "" when
\* the shift fragment has no join
JoinedFieldsText(s) ==
    IF "join" \in DOMAIN s
    THEN StrJoin(",", <<<< >>>> \o Items(s.join.fields))
    ELSE << >>

\* the first branch: the base query, joined with the join fragment if any
JoinBranch(d, s) ==
    IF "join" \in DOMAIN s
    THEN Replace(<<"SELECT", ":parent_fields", "FROM", "(">> \o d.sql \o
                 <<")", "a">>,
                 ":parent_fields",
                 StrJoin(",", Items(PartAPrefix(d.fields, s.join.fields))))
         \o Replace(<<"INNER JOIN", "(", ":sql", ")", "p", "ON",
                      "p.person_id", "=", "a.person_id">>,
                    ":sql", s.join.sql)
    ELSE <<"SELECT", ":parent_fields", "FROM", "(">> \o d.sql \o <<")", "a">>

\* fields = [field.replace('a.','') for field in fields]
UnprefixedFields(fields) == [i \in 1..Len(fields) |-> Unprefixed(fields[i])]

\* non_union_fields = list(set(fields) - set(r['shift']['union']['fields']))
NonUnionFields(fields, union_fields) ==
    ListOfSet(Elems(fields) \ Elems(union_fields))

\* the text appended for the union fragment, before the last two replaces
UnionBranch(union_sql, non_union_fields) ==
    Replace(<<"UNION ALL", "SELECT", ":fields", ":joined_fields", "FROM",
              "(", ":sql", ")">>,
            ":sql",
            Replace(union_sql, ":fields",
                    StrJoin(",", <<<< >>>> \o Items(non_union_fields))))

\* the text after the union fragment is appended and the last two replaces
WithUnion(sql, fields, union, joined_text) ==
    Replace(Replace(
        sql \o UnionBranch(union.sql, NonUnionFields(fields, union.fields)),
        ":fields", StrJoin(",", Items(fields))),
        ":joined_fields", joined_text)

\* self.fields = list(set(fields + join_fields.split(",")) - set(['']))
FinalFields(fields, joined_text) ==
    ListOfSet((Elems(fields) \cup Elems(SplitNames(joined_text))) \ {""})

\* the composition of Orchestrator.setup when r holds both fragments:
\* d is r['dropfields'], s is r['shift']
Compose(d, s) ==
    Bind(JoinedFieldsText(s), LAMBDA joined_text :
    Bind(Replace(JoinBranch(d, s), ":joined_fields", joined_text),
         LAMBDA sql :
            [sql |-> IF "union" \in DOMAIN s
                     THEN WithUnion(sql, UnprefixedFields(d.fields), s.union,
                                    joined_text)
                     ELSE sql,
             fields |-> FinalFields(UnprefixedFields(d.fields),
                                    joined_text)]))

\* what the constructor leaves or raises, and the caller's list afterwards
Built(callerList, planned, err, printed, sql, fields) ==
    [callerList |-> callerList, planned |-> planned, err |-> err,
     printed |-> printed, sql |-> sql, fields |-> fields]

\* setup after both actors were asked: sh and dr are what can_do handed back
SetupCompose(callerList, dataset, table, sh, dr) ==
    IF dr.err # "none"
    THEN Built(callerList, FALSE, dr.err, dr.printed, << >>, << >>)
    ELSE IF ~dr.value
    THEN \* 'dropfields' not in r: self.sql stays None, self.fields unset
         Built(callerList, FALSE, "none", "none", << >>, << >>)
    ELSE IF ~DropGet(dr.self, dataset, table).found
    THEN \* r['dropfields'] is False: r['dropfields']['fields'] raises
         Built(callerList, FALSE, "TypeError", dr.printed, << >>, << >>)
    ELSE IF ~sh.value
    THEN \* 'shift' not in r: join_fields is never bound, and the
         \* assignment of self.fields raises
         Built(callerList, FALSE, "NameError", "none", << >>, << >>)
    ELSE Bind(Compose(DropGet(dr.self, dataset, table).entry,
                      ShiftGet(sh.self, dataset, table).entry),
              LAMBDA c :
                 Built(callerList, TRUE, "none", "none", c.sql, c.fields))

\* Orchestrator(dataset=.., table=.., [remove=callerList]): __init__ and
\* setup.  withRemove tells whether the caller passed its list object; a
\* DropFields built without 'remove' gets a fresh empty list.
OrchestratorSetup(callerList, withRemove, dataset, table) ==
    Bind(ShiftCanDoCall(NewShift, dataset, table), LAMBDA sh :
        IF sh.err # "none"
        THEN Built(callerList, FALSE, sh.err, sh.printed, << >>, << >>)
        ELSE Bind(DropCanDoCall(NewDropFields,
                                IF withRemove THEN callerList ELSE << >>,
                                dataset, table),
                  LAMBDA dr :
                     SetupCompose(IF withRemove THEN dr.callerList
                                  ELSE callerList,
                                  dataset, table, sh, dr)))

(***************************************************************************)
(* The warehouse and the catalog the model runs against.                   *)
(***************************************************************************)
Col(n, t) == [name |-> n, field_type |-> t]

ObservationWithDate ==
    <<Col("person_id", "INTEGER"), Col("observation_id", "INTEGER"),
      Col("observation_date", "DATE"),
      Col("observation_source_concept_id", "INTEGER"),
      Col("value_as_string", "STRING")>>

ObservationNoDate ==
    <<Col("person_id", "INTEGER"),
      Col("observation_source_concept_id", "INTEGER"),
      Col("value_as_string", "STRING"),
      Col("value_source_value", "STRING")>>

PersonSchema ==
    <<Col("person_id", "INTEGER"), Col("birth_datetime", "DATETIME"),
      Col("race_concept_id", "INTEGER"), Col("gender_concept_id", "INTEGER")>>

\* a table without a date-like column; its birth_datetime is kept as text
NoteSchema ==
    <<Col("person_id", "INTEGER"), Col("birth_datetime", "STRING"),
      Col("note_text", "STRING")>>

Warehouses ==
    {[observation |-> o, person |-> PersonSchema, note |-> NoteSchema] :
        o \in {ObservationWithDate, ObservationNoDate}}

Row(id, code, cname) ==
    [concept_id |-> id, concept_code |-> code, concept_name |-> cname]

FullCatalog ==
    [race |-> <<Row("8527", "8527", "White"),
                Row("8522", "8522", "Other Race")>>,
     gender |-> <<Row("8521", "OTHER", "OTHER"),
                  Row("1585840", "GenderIdentity_Man", "Man")>>,
     orientation |-> <<Row("1585900", SEXUAL_ORIENTATION_STRAIGHT, "Straight"),
                       Row("1585904", SEXUAL_ORIENTATION_NOT_STRAIGHT,
                           "None")>>,
     employment |-> <<Row("1585953", "EmploymentStatus_EmployedForWages",
                          "Employed")>>,
     sex_at_birth |-> <<Row("1585846", "SexAtBirth_Female", "Female"),
                        Row("1585847", "SexAtBirth_Male", "Male")>>,
     language |-> <<Row("1585414", "Language_English", "English")>>,
     education |-> << >>]

Catalogs ==
    {FullCatalog,
     [FullCatalog EXCEPT !.gender = <<FullCatalog.gender[2]>>],
     [FullCatalog EXCEPT !.race = <<FullCatalog.race[1]>>],
     [FullCatalog EXCEPT !.orientation = <<FullCatalog.orientation[1]>>]}

AlwaysDropLists == {<< >>, <<"value_as_string">>, <<"observation_date">>}

(***************************************************************************)
(* The state machine: the calls a caller can make.                         *)
(***************************************************************************)
(***************************************************************************)
(* Reading a query text back: nesting depth, the branches of a UNION ALL   *)
(* chain, the items of a select list and the name each item goes by.       *)
(***************************************************************************)
Delta(tok) == IF tok = "(" THEN 1 ELSE IF tok = ")" THEN 0 - 1 ELSE 0

RECURSIVE DepthsV(_)
DepthsV(text) ==
    IF Len(text) = 0 THEN << >>
    ELSE IF Len(text) = 1 THEN <<Delta(text[1])>>
    ELSE Bind(DepthsV(SubSeq(text, 1, Len(text) \div 2)), LAMBDA l :
         Bind(DepthsV(SubSeq(text, (Len(text) \div 2) + 1, Len(text))),
              LAMBDA r :
                 l \o [i \in 1..Len(r) |-> r[i] + l[Len(l)]]))

\* the number of parentheses open after each token of the text
Depths(text) == Bind(text, DepthsV)

\* the tokens of the text that lie outside every parenthesis (the
\* parentheses themselves left out)
Level0(text) ==
    Bind(text, LAMBDA t : Bind(Depths(t), LAMBDA d :
        Flatten([i \in 1..Len(t) |->
                    IF d[i] = 0 /\ t[i] # ")" THEN <<t[i]>> ELSE << >>])))

\* what the first parenthesis of the text encloses
Inner(text) ==
    Bind(text, LAMBDA t : Bind(Depths(t), LAMBDA d :
        Bind(CHOOSE i \in 1..Len(t) :
                 t[i] = "(" /\ \A j \in 1..(i - 1) : t[j] # "(",
             LAMBDA open :
        Bind(CHOOSE j \in (open + 1)..Len(t) :
                 d[j] = 0 /\ \A k \in (open + 1)..(j - 1) : d[k] > 0,
             LAMBDA close : SubSeq(t, open + 1, close - 1)))))

\* the positions of the tokens of the text that are in seps, in order
Positions(text, seps) ==
    SelectSeq([i \in 1..Len(text) |-> i], LAMBDA i : text[i] \in seps)

\* the pieces of the text between the tokens that are in seps
SplitAt(text, seps) ==
    Bind(text, LAMBDA t : Bind(Positions(t, seps), LAMBDA at :
        [k \in 1..(Len(at) + 1) |->
            SubSeq(t,
                   IF k = 1 THEN 1 ELSE at[k - 1] + 1,
                   IF k = Len(at) + 1 THEN Len(t) ELSE at[k] - 1)]))

\* the select list of one query whose nested parts are left out: what lies
\* between its SELECT and its first FROM, as a list of items
SelectItems(query) ==
    Bind(query, LAMBDA t :
        Bind(Positions(t, {"SELECT"}), LAMBDA sel :
        Bind(Positions(t, {"FROM", "from"}), LAMBDA from :
            SplitAt(SubSeq(t, sel[1] + 1, from[1] - 1), {","}))))

\* the name an item goes by: its alias, or the column itself
ItemName(item) == IF Len(item) = 0 THEN "" ELSE item[Len(item)]

\* the select lists of the branches of a UNION ALL chain, each a list of
\* items with their nested parts left out
BranchItems(text) ==
    Bind(SplitAt(Level0(text), {"UNION ALL"}), LAMBDA branches :
        [k \in 1..Len(branches) |-> SelectItems(branches[k])])

\* the names of a list of items
ItemNames(items) == [i \in 1..Len(items) |-> ItemName(items[i])]

\* the select lists, as names, of the branches of a UNION ALL chain
BranchNames(text) ==
    Bind(BranchItems(text), LAMBDA lists :
        [k \in 1..Len(lists) |-> ItemNames(lists[k])])

\* a list without a repeated element
NoRepeat(xs) == \A i, j \in 1..Len(xs) : xs[i] = xs[j] => i = j

\* the column a qualified name 'a.<column>' stands for
ColumnNames ==
    UNION {Elems(FieldNames(schemas[t])) : t \in DOMAIN schemas}

Unqualified(n) ==
    IF \E c \in ColumnNames : n = Prefixed(c)
    THEN CHOOSE c \in ColumnNames : n = Prefixed(c)
    ELSE n

UnqualifiedAll(names) == [i \in 1..Len(names) |-> Unqualified(names[i])]


(***************************************************************************)
(* The queries run against rows: which observation rows each part of the   *)
(* meta-table's plan selects, and what the plan of a physical table        *)
(* returns for the rows of a subject.                                      *)
(***************************************************************************)
MaxRowsPerSubject == 2

\* a text holds another one
Contains(text, sub) ==
    \E i \in 1..(Len(text) - Len(sub) + 1) :
        SubSeq(text, i, i + Len(sub) - 1) = sub

LowerChar(c) ==
    CASE c = "A" -> "a" [] c = "B" -> "b" [] c = "C" -> "c" [] c = "D" -> "d"
      [] c = "E" -> "e" [] c = "F" -> "f" [] c = "G" -> "g" [] c = "H" -> "h"
      [] c = "I" -> "i" [] c = "J" -> "j" [] c = "K" -> "k" [] c = "L" -> "l"
      [] c = "M" -> "m" [] c = "N" -> "n" [] c = "O" -> "o" [] c = "P" -> "p"
      [] c = "Q" -> "q" [] c = "R" -> "r" [] c = "S" -> "s" [] c = "T" -> "t"
      [] c = "U" -> "u" [] c = "V" -> "v" [] c = "W" -> "w" [] c = "X" -> "x"
      [] c = "Y" -> "y" [] c = "Z" -> "z" [] OTHER -> c

RECURSIVE Lower(_)
Lower(text) ==
    IF Len(text) = 0 THEN ""
    ELSE LowerChar(SubSeq(text, 1, 1)) \o Lower(SubSeq(text, 2, Len(text)))

\* REGEXP_CONTAINS(text, '(a|b|..)'), the pattern given as its tokens
RegexpContains(text, pattern) ==
    \E i \in 1..Len(pattern) :
        pattern[i] # "|" /\ Contains(text, pattern[i])

\* REGEXP_CONTAINS(text, '(?i)key')
RegexpContainsI(text, key) == Contains(Lower(text), Lower(key))

\* the row filter of the base query of a meta-table, on a row whose
\* observation_source_concept_id is the concept c
BaseSelects(c) ==
    /\ c.vocabulary_id = VocabularyId
    /\ c.concept_class_id \in Elems(ConceptClassId)
    /\ ~RegexpContains(c.concept_code, DropSqlFilter)

\* the row filter of the branch of one category
BranchSelects(key, c) == RegexpContainsI(c.concept_code, key)

\* the row filter of the union query of Shift, on a row whose
\* observation_source_value is the code of the concept c
UnionSelects(c) == RegexpContains(c.concept_code, ShiftDatePattern)

\* the parts of the plan of the meta-table
Parts == {"base", "union"} \cup Elems(FilterKeys)

Selects(part, c) ==
    CASE part = "base" -> BaseSelects(c)
      [] part = "union" -> UnionSelects(c)
      [] OTHER -> BranchSelects(part, c)

\* a physical table with a date column and several rows for a subject
VisitSchema ==
    <<Col("person_id", "INTEGER"), Col("visit_id", "INTEGER"),
      Col("visit_date", "DATE")>>

DataWarehouse ==
    [observation |-> ObservationWithDate, person |-> PersonSchema,
     visit |-> VisitSchema]

\* the rows of the visit table: n rows of subject 1, one row of subject 2
VisitRows(n) ==
    {[person_id |-> 1, visit_id |-> i] : i \in 1..n} \cup
    {[person_id |-> 2, visit_id |-> n + 1]}

\* the anchor observations: exactly one for each subject
AnchorRows ==
    {[person_id |-> 1, observation_id |-> 101],
     [person_id |-> 2, observation_id |-> 102]}

\* the columns a join condition equates, read from the text that follows
\* the ON of a query: those named with the alias
OnKeys(query, alias) ==
    Bind(Level0(query), LAMBDA t :
        Bind(Positions(t, {"ON"}), LAMBDA on :
            {c \in ColumnNames \cup {"observation_id"} :
                \E i \in (on[1] + 1)..Len(t) : t[i] = alias \o c}))

\* the rows of the join query of Shift: an anchor row x with a row of the
\* table that agrees with it on the columns of the join condition; each row
\* holds x.person_id and the shifted dates of the table row, here named by
\* the table row they are computed from
JoinQueryRows(query, anchors, rows) ==
    Bind(OnKeys(query, "x."), LAMBDA keys :
        {[person_id |-> x.person_id, from |-> r.visit_id] :
            <<x, r>> \in {xr \in anchors \X rows :
                             \A k \in keys : xr[1][k] = xr[2][k]}})

\* the rows of the composed plan: a row a of the base query with a row p of
\* the join query that agrees with it on the columns of the ON condition;
\* each is named by the table row of a and the table row p was computed from
PlanRows(plan, join, anchors, rows) ==
    Bind(OnKeys(plan, "p."), LAMBDA keys :
    Bind(JoinQueryRows(join, anchors, rows), LAMBDA joined :
        {<<ap[1].visit_id, ap[2].from>> :
            ap \in {z \in rows \X joined :
                       \A k \in keys : z[1][k] = z[2][k]}}))

Codes ==
    {"PersonOneAddress_PIICity", "ExtraConsent_TodaysDate",
     "cdc_covid_19_7_xx22_date", "Race_WhatRaceEthnicity",
     "Gender_GenderIdentity", "TheBasics_SexualOrientation",
     "Employment_EmploymentStatus", "BiologicalSexAtBirth_SexAtBirth",
     "Language_SpokenWrittenLanguage", "EducationLevel_HighestGrade"}

Concepts ==
    [concept_code : Codes, vocabulary_id : {VocabularyId, "SNOMED"},
     concept_class_id : {"Question", "Answer"}]

NoWorld ==
    [concept |-> [concept_code |-> "", vocabulary_id |-> "",
                  concept_class_id |-> ""],
     visits |-> 0, part |-> "none", selected |-> FALSE, out |-> {}]

Worlds ==
    {[NoWorld EXCEPT !.concept = c, !.visits = n] :
        c \in Concepts, n \in 1..MaxRowsPerSubject}

NoCall ==
    [op |-> "none", table |-> "none", share |-> FALSE, again |-> FALSE,
     value |-> FALSE, found |-> FALSE, entry |-> EmptyDict,
     err |-> "none", printed |-> "none", queries |-> 0, cached |-> FALSE,
     planned |-> FALSE, sql |-> << >>, fields |-> << >>]

Again(op, table, share) ==
    last.op = op /\ last.table = table /\ last.share = share

Init ==
    /\ mode \in {"shift", "dropfields", "orchestrator", "group", "data"}
    /\ IF mode = "data"
       THEN /\ world \in Worlds
            /\ schemas = DataWarehouse
            /\ catalog = FullCatalog
            /\ alwaysDrop = << >>
       ELSE /\ world = NoWorld
            /\ schemas \in Warehouses
            /\ catalog \in Catalogs
            /\ alwaysDrop \in AlwaysDropLists
    /\ removeObj = alwaysDrop
    /\ shift = NewShift
    /\ drop = NewDropFields
    /\ last = NoCall

\* shift.can_do(DATASET, t)
ShiftCanDo(t) ==
    /\ mode = "shift"
    /\ \E c \in {ShiftCanDoCall(shift, DATASET, t)} :
           /\ shift' = c.self
           /\ last' = [NoCall EXCEPT !.op = "shift.can_do", !.table = t,
                          !.again = Again("shift.can_do", t, FALSE),
                          !.value = c.value, !.err = c.err,
                          !.printed = c.printed, !.queries = c.queries,
                          !.cached = c.cached]
    /\ UNCHANGED <<world, schemas, catalog, alwaysDrop, mode, removeObj, drop>>

\* drop.can_do(DATASET, t), drop being DropFields(remove=removeObj)
DropCanDo(t) ==
    /\ mode = "dropfields"
    /\ \E c \in {DropCanDoCall(drop, removeObj, DATASET, t)} :
           /\ drop' = c.self
           /\ removeObj' = c.callerList
           /\ last' = [NoCall EXCEPT !.op = "drop.can_do", !.table = t,
                          !.again = Again("drop.can_do", t, FALSE),
                          !.value = c.value, !.err = c.err,
                          !.printed = c.printed, !.queries = c.queries,
                          !.cached = c.cached]
    /\ UNCHANGED <<world, schemas, catalog, alwaysDrop, mode, shift>>

\* shift.get(DATASET, t)
ShiftGetCall(t) ==
    /\ mode = "shift"
    /\ \E g \in {ShiftGet(shift, DATASET, t)} :
           last' = [NoCall EXCEPT !.op = "shift.get", !.table = t,
                       !.again = Again("shift.get", t, FALSE),
                       !.found = g.found, !.entry = g.entry]
    /\ UNCHANGED <<world, schemas, catalog, alwaysDrop, mode, removeObj, shift, drop>>

\* drop.get(DATASET, t)
DropGetCall(t) ==
    /\ mode = "dropfields"
    /\ \E g \in {DropGet(drop, DATASET, t)} :
           last' = [NoCall EXCEPT !.op = "drop.get", !.table = t,
                       !.again = Again("drop.get", t, FALSE),
                       !.found = g.found, !.entry = g.entry]
    /\ UNCHANGED <<world, schemas, catalog, alwaysDrop, mode, removeObj, shift, drop>>

\* Orchestrator(dataset=DATASET, table=t), with remove=removeObj when share
Orchestrate(t, share) ==
    /\ mode = "orchestrator"
    /\ \E o \in {OrchestratorSetup(removeObj, share, DATASET, t)} :
           /\ Len(o.callerList) <= MaxRemoveLen
           /\ removeObj' = o.callerList
           /\ last' = [NoCall EXCEPT !.op = "orchestrator", !.table = t,
                          !.share = share,
                          !.again = Again("orchestrator", t, share),
                          !.err = o.err, !.printed = o.printed,
                          !.planned = o.planned, !.sql = o.sql,
                          !.fields = o.fields]
    /\ UNCHANGED <<world, schemas, catalog, alwaysDrop, mode, shift, drop>>

\* Group(dataset=DATASET, table=t, fields=<the table's columns>).<key>()
GroupRuleCall(key, t) ==
    /\ mode = "group"
    /\ t \in Existing
    /\ \E g \in {GroupCall(key, t, FieldNames(schemas[t]), catalog)} :
           last' = [NoCall EXCEPT !.op = "group." \o key, !.table = t,
                       !.again = Again("group." \o key, t, FALSE),
                       !.entry = g.r, !.err = g.err]
    /\ UNCHANGED <<world, schemas, catalog, alwaysDrop, mode, removeObj, shift, drop>>

\* one part of the plan of the meta-table run on a row of the concept
SelectRows(part) ==
    /\ mode = "data"
    /\ world' = [world EXCEPT !.part = part,
                              !.selected = Selects(part, world.concept)]
    /\ UNCHANGED <<schemas, catalog, alwaysDrop, mode, removeObj, shift, drop,
                   last>>

\* Orchestrator(dataset=DATASET, table='visit').sql run on the rows
RunPlan ==
    /\ mode = "data"
    /\ \E o \in {OrchestratorSetup(<< >>, FALSE, DATASET, "visit")} :
       \E sh \in {ShiftCanDoCall(NewShift, DATASET, "visit")} :
           /\ o.planned
           /\ world' = [world EXCEPT
                  !.part = "plan",
                  !.selected = FALSE,
                  !.out = PlanRows(o.sql,
                                   ShiftGet(sh.self, DATASET,
                                            "visit").entry.join.sql,
                                   AnchorRows, VisitRows(world.visits))]
    /\ UNCHANGED <<schemas, catalog, alwaysDrop, mode, removeObj, shift, drop,
                   last>>

Next ==
    \/ \E t \in Tables : ShiftCanDo(t)
    \/ \E t \in Tables : DropCanDo(t)
    \/ \E t \in Tables : ShiftGetCall(t)
    \/ \E t \in Tables : DropGetCall(t)
    \/ \E t \in Tables, share \in BOOLEAN : Orchestrate(t, share)
    \/ \E key \in Elems(FilterKeys), t \in Tables : GroupRuleCall(key, t)
    \/ \E part \in Parts : SelectRows(part)
    \/ RunPlan

Spec == Init /\ [][Next]_vars


HasDate(t) == t \in Existing /\ Len(DateFields(schemas[t])) > 0

\* the catalog lacks the sentinel row of one of the rules that look one up
SentinelMissing ==
    \/ Len(RowsWhere(catalog.race, "concept_name", "Other Race")) = 0
    \/ Len(RowsWhere(catalog.gender, "concept_name", "OTHER")) = 0
    \/ Len(RowsWhere(catalog.orientation, "concept_code",
                     SEXUAL_ORIENTATION_NOT_STRAIGHT)) = 0

Composed == last.op = "orchestrator" /\ last.planned

(***************************************************************************)
(* The properties, by the number of the statement each one settles.       *)
(***************************************************************************)
\* C1: in every plan composed with a union fragment, the select list of the
\* appended UNION ALL branch names the same fields, as many and in the same
\* order, as the select list of the branch before it (the 'a.' qualifier of
\* the first branch set aside).
C1_UnionBranchAligned ==
    Composed =>
        \A names \in {BranchNames(last.sql)} :
            \A k \in 1..Len(names) :
                UnqualifiedAll(names[k]) = UnqualifiedAll(names[1])

\* C1 happens: a plan of the meta-table with two branches, the first one
\* selecting a shifted date field beside the qualified ones
C1_Witness ==
    /\ Composed
    /\ InMeta(last.table)
    /\ \E names \in {BranchNames(last.sql)} :
          /\ Len(names) = 2
          /\ \E i \in 1..Len(names[1]) : names[1][i] \in ColumnNames
          /\ \E i \in 1..Len(names[1]) : names[1][i] \notin ColumnNames

\* C2: when a plan is produced, no field name occurs twice in the final
\* field list, nor in a top-level select list of the composed text.
C2_NoRepeatedField ==
    Composed =>
        /\ NoRepeat(last.fields)
        /\ \A names \in {BranchNames(last.sql)} :
              \A k \in 1..Len(names) : NoRepeat(UnqualifiedAll(names[k]))

\* C2 happens: a plan whose field list holds a date column that was dropped
\* and joined back, beside other columns
C2_Witness ==
    /\ Composed
    /\ HasDate(last.table)
    /\ \E f \in Elems(last.fields) :
          f \in Elems(FieldNames(DateFields(schemas[last.table])))
    /\ Len(last.fields) > 1

\* C3 (as the specification states it): when the catalog lacks a sentinel
\* row and the meta-table is compiled, the caller gets CategoryUndefined, no
\* plan is produced, and DropFields.can_do does not swallow the failure.
C3_CategoryUndefined ==
    (SentinelMissing /\ InMeta(last.table)) =>
        /\ last.op = "orchestrator" =>
              (last.err = "CategoryUndefined" /\ ~last.planned)
        /\ (last.op = "drop.can_do" /\ ~last.cached) =>
              (last.err = "CategoryUndefined" /\ last.printed = "none")

\* C4 (as the specification states it): when the schema lookup fails, the
\* caller gets SchemaNotFound, nothing is merely printed, and neither
\* policy's cache or policies map gains an entry for the key.
C4_SchemaNotFound ==
    (last.table \in Tables \ Existing /\
     last.op \in {"shift.can_do", "drop.can_do", "orchestrator"}) =>
        /\ last.err = "SchemaNotFound"
        /\ last.printed = "none"
        /\ KeyName(DATASET, last.table) \notin
              (DOMAIN shift.cache) \cup (DOMAIN shift.policies) \cup
              (DOMAIN drop.cache) \cup (DOMAIN drop.policies)

\* C5: a call that repeats the call before it (the same construction of an
\* Orchestrator, the same can_do or get on the same instance) yields what
\* that call yielded: the same value or error, the same entry, the same
\* composed text and the same field list in the same order.
C5_RepeatYieldsSame ==
    [][last'.again =>
          /\ last'.value = last.value
          /\ last'.err = last.err
          /\ last'.found = last.found
          /\ last'.entry = last.entry
          /\ last'.planned = last.planned
          /\ last'.sql = last.sql
          /\ last'.fields = last.fields]_vars

\* C5 happens: a plan composed by a construction that repeats the one before
C5_Witness == Composed /\ last.again /\ Len(last.fields) > 1

\* C6 (as the specification states it): for a table without a date-like
\* column that is not a meta-table and for which DropFields.can_do returns
\* False, a plan is produced and its fields are the schema's columns.
C6_PassThrough ==
    (/\ last.op = "orchestrator"
     /\ last.table \in Existing
     /\ ~HasDate(last.table)
     /\ ~InMeta(last.table)
     /\ ~DropCanDoCall(NewDropFields,
                       IF last.share THEN removeObj ELSE << >>,
                       DATASET, last.table).value) =>
        /\ last.planned
        /\ Elems(last.fields) = Elems(FieldNames(schemas[last.table]))

\* C7: in the text DropFields.can_do stores for a meta-table, the base
\* select and every category branch list the same fields in the same
\* order, the retained ones: each item of a branch is the retained field of
\* its position, or an expression given that field's name as alias.
C7_BranchesAligned ==
    \A name \in {KeyName(DATASET, t) : t \in Elems(META_TABLES)}
                \cap DOMAIN drop.policies :
        \A lists \in {BranchItems(Inner(drop.policies[name].sql))} :
            Len(lists) > 1 =>
                \A k \in 1..Len(lists) :
                    /\ ItemNames(lists[k]) = drop.policies[name].fields
                    /\ \A i \in 1..Len(lists[k]) :
                          \/ Len(lists[k][i]) = 1
                          \/ /\ k > 1
                             /\ Len(lists[k][i]) > 2
                             /\ lists[k][i][Len(lists[k][i]) - 1] = "as"

\* C7 happens: a stored text of the meta-table with category branches, one
\* of which holds a generalization expression
C7_Witness ==
    /\ last.op = "drop.can_do"
    /\ InMeta(last.table)
    /\ KeyName(DATASET, last.table) \in DOMAIN drop.policies
    /\ \E lists \in {BranchItems(Inner(
                        drop.policies[KeyName(DATASET, last.table)].sql))} :
          /\ Len(lists) > 2
          /\ \E i \in 1..Len(lists[2]) : Len(lists[2][i]) > 2

\* C8 (as the specification states it): DropFields.can_do returns True
\* exactly when the table has a date-like column or is a meta-table,
\* whatever the always-drop list and the calls made before.
C8_ApplicableIffDateOrMeta ==
    (last.op = "drop.can_do" /\ last.table \in Existing) =>
        /\ last.err = "none"
        /\ last.value = (HasDate(last.table) \/ InMeta(last.table))

\* C9: an entry of a policy's cache is never changed or removed, and a
\* can_do for a key the cache holds returns the cached value, queries
\* neither the schema provider nor the catalog, and leaves the cache, the
\* policies map and the accumulated drop list as they were.
C9_CachedKeyIsFrozen ==
    [][/\ \A k \in DOMAIN shift.cache :
             k \in DOMAIN shift'.cache /\ shift'.cache[k] = shift.cache[k]
       /\ \A k \in DOMAIN drop.cache :
             k \in DOMAIN drop'.cache /\ drop'.cache[k] = drop.cache[k]
       /\ (last'.op = "shift.can_do" /\
           KeyName(DATASET, last'.table) \in DOMAIN shift.cache) =>
              /\ last'.value = shift.cache[KeyName(DATASET, last'.table)]
              /\ last'.err = "none"
              /\ last'.queries = 0
              /\ shift' = shift
       /\ (last'.op = "drop.can_do" /\
           KeyName(DATASET, last'.table) \in DOMAIN drop.cache) =>
              /\ last'.value = drop.cache[KeyName(DATASET, last'.table)]
              /\ last'.err = "none"
              /\ last'.queries = 0
              /\ drop' = drop
              /\ removeObj' = removeObj]_vars

\* C9 happens: a DropFields.can_do answered from the cache, on an instance
\* whose drop list has accumulated a column
C9_Witness ==
    /\ last.op = "drop.can_do"
    /\ last.cached
    /\ last.value
    /\ Len(drop.remove) > 0

\* C10 (as the specification states it): what a construction yields for a
\* table is what it yields when the table is compiled alone, with the
\* always-drop list as the caller first made it, whatever was compiled
\* before and also when the constructions share the list object.
C10_IndependentOfEarlierTables ==
    last.op = "orchestrator" =>
        \A alone \in {OrchestratorSetup(alwaysDrop, last.share, DATASET,
                                        last.table)} :
            /\ last.planned = alone.planned
            /\ last.err = alone.err
            /\ last.sql = alone.sql
            /\ last.fields = alone.fields


\* the literal that marks the anchor observation of a subject
AnchorLiteral == "'ExtraConsent_TodaysDate'"

\* the alias under which a query reads the anchor observation: the alias
\* whose observation_source_value the query itself compares with the
\* literal, or else the alias given to the nested query that does
AnchorAlias(query) ==
    Bind(query, LAMBDA t : Bind(Depths(t), LAMBDA d :
        Bind(CHOOSE k \in 1..Len(t) : t[k] = AnchorLiteral, LAMBDA k :
            IF d[k] = 0
            THEN CHOOSE a \in {"x", "y", "__targetTable"} :
                     t[k - 2] = a \o ".observation_source_value"
            ELSE t[1 + CHOOSE j \in (k + 1)..Len(t) :
                         d[j] = 0 /\ \A m \in k..(j - 1) : d[m] > 0])))

\* the first operand of the DATE_DIFF that starts at position i:
\* DATE_DIFF ( CAST ( <operand> AS DATE ) , ...
FirstOperand(query, i) == query[i + 4]

\* the queries of the entries a Shift instance holds
ShiftQueries(self) ==
    {self.policies[n].join.sql : n \in DOMAIN self.policies} \cup
    {self.policies[n].union.sql :
        n \in {m \in DOMAIN self.policies :
                  "union" \in DOMAIN self.policies[m]}}

\* C11 (as the specification states it): every date-shift expression Shift
\* emits, in the join query and in the union query, physical or encoded,
\* takes the subject's anchor date as its first operand and the value being
\* shifted as its second, so that the sign is the same everywhere.
C11_AnchorIsFirstOperand ==
    \A q \in ShiftQueries(shift) :
        \A i \in Elems(Positions(q, {"DATE_DIFF"})) :
            FirstOperand(q, i) = AnchorAlias(q) \o ".value_as_string"


\* the calls of a category rule
GroupOps == {"group." \o key : key \in Elems(FilterKeys)}

\* C12 (as the specification states it): every expression a category rule
\* hands back, for the person columns and for the observation rows, keeps
\* the value when the conditioning identifier is in the rule's id set and
\* puts the sentinel otherwise: IF(<id> not in (<ids>), <sentinel>, <value>).
C12_KeepWhenInIdSet ==
    (last.op \in GroupOps /\ last.err = "none") =>
        \A n \in DOMAIN last.entry :
            /\ last.entry[n][1] = "IF"
            /\ last.entry[n][4] = "not in"


\* C15 (as the specification states it): once Shift.can_do has succeeded
\* for a table, Shift.get holds a join fragment exactly when the table has a
\* date-like column, its fields being those columns, and a union fragment
\* exactly when the table is a meta-table.
C15_FragmentsMatchTable ==
    \A t \in Existing :
        KeyName(DATASET, t) \in DOMAIN shift.cache =>
            \A g \in {ShiftGet(shift, DATASET, t)} :
                /\ HasDate(t) <=> (g.found /\ "join" \in DOMAIN g.entry)
                /\ (g.found /\ "join" \in DOMAIN g.entry) =>
                       g.entry.join.fields = FieldNames(DateFields(schemas[t]))
                /\ InMeta(t) <=> (g.found /\ "union" \in DOMAIN g.entry)

\* C16 (as the specification states it): on every policy instance a key
\* whose cache entry is True has an entry in policies, and Orchestrator.setup
\* never indexes into a fragment that is missing.
C16_CachedTrueHasFragment ==
    /\ \A k \in DOMAIN shift.cache :
           shift.cache[k] => k \in DOMAIN shift.policies
    /\ \A k \in DOMAIN drop.cache :
           drop.cache[k] => k \in DOMAIN drop.policies
    /\ last.op = "orchestrator" => last.err # "TypeError"

\* C17 (as the specification states it): a column of the caller's
\* always-drop list is neither in the final field list of a plan nor in a
\* top-level select list of its text, date-like or not.
C17_AlwaysDroppedStaysOut ==
    (Composed /\ last.share) =>
        /\ Elems(alwaysDrop) \cap Elems(last.fields) = {}
        /\ \A names \in {BranchNames(last.sql)} :
              \A k \in 1..Len(names) :
                  Elems(alwaysDrop) \cap Elems(UnqualifiedAll(names[k])) = {}

\* a template placeholder
IsPlaceholder(tok) == Len(tok) > 0 /\ SubSeq(tok, 1, 1) = ":"

\* C18 (as the specification states it): for a table without a date-like
\* column that is not a meta-table, compiled with a non-empty always-drop
\* list, the construction does not raise and yields a plan whose text holds
\* no placeholder and whose field list is the retained field list.
C18_DropOnlyPlan ==
    (/\ last.op = "orchestrator"
     /\ last.share
     /\ Len(alwaysDrop) > 0
     /\ last.table \in Existing
     /\ ~HasDate(last.table)
     /\ ~InMeta(last.table)) =>
        /\ last.err = "none"
        /\ last.planned
        /\ \A i \in 1..Len(last.sql) : ~IsPlaceholder(last.sql[i])
        /\ Elems(last.fields) =
              Elems(FieldNames(schemas[last.table])) \ Elems(alwaysDrop)


\* C13 (as the specification states it): an observation row that the union
\* query of Shift or the branch of a category selects is not selected by the
\* base query of the meta-table.
C13_BaseExcludesTransformed ==
    (world.part \in Parts \ {"base"} /\ world.selected) =>
        ~BaseSelects(world.concept)

\* C14 (as the specification states it): the branch of a category selects
\* every row the base query leaves out for the category's pattern, and only
\* rows whose code matches that pattern.
C14_BranchReadmitsItsCategory ==
    world.part \in Elems(FilterKeys) =>
        world.selected <=>
            Contains(world.concept.concept_code,
                     OBSERVATION_FILTERS[world.part])

\* C19 (as the specification states it): the plan of a physical table
\* returns one row for each row of the table, its shifted dates computed
\* from that same row, also for a subject with several rows.
C19_OneRowPerSourceRow ==
    world.part = "plan" =>
        \A r \in VisitRows(world.visits) :
            {o \in world.out : o[1] = r.visit_id} =
                {<<r.visit_id, r.visit_id>>}


====
